---- MODULE Spec2Model ----
(***************************************************************************)
(* A model of matrixmethod/elements.py: the Element class of a 2D direct   *)
(* stiffness toolkit (extension + Euler-Bernoulli bending).                *)
(*                                                                         *)
(* Numbers.  The program computes in floating point; the model computes    *)
(* the real-number value of every expression exactly.  A rational is a     *)
(* normalised pair <<n, d>> (d > 0, gcd(n, d) = 1).  The default section   *)
(* stiffness 1.e20 does not fit the model checker's integers, so a number  *)
(* is a triple of rationals [inv, one, big] standing for                   *)
(*        inv / 1e20  +  one  +  big * 1e20                                *)
(* with 1e20 kept symbolic.  The program never multiplies two section      *)
(* stiffnesses, so these three powers suffice.                             *)
(***************************************************************************)
EXTENDS Integers, Sequences, FiniteSets, Bags, TLC

\* ------------------------------------------------------------- rationals

Abs(i) == IF i < 0 THEN -i ELSE i

RECURSIVE Gcd(_, _)
Gcd(a, b) == IF b = 0 THEN a ELSE Gcd(b, a % b)

RNorm(n, d) ==
    IF n = 0 THEN <<0, 1>>
    ELSE LET g == Gcd(Abs(n), Abs(d))
             s == IF d < 0 THEN -1 ELSE 1
         IN  <<(s * n) \div g, (s * d) \div g>>

RZero == <<0, 1>>

RAdd(a, b) ==
    IF a[1] = 0 THEN b
    ELSE IF b[1] = 0 THEN a
    ELSE RNorm(a[1] * b[2] + b[1] * a[2], a[2] * b[2])

RNeg(a) == <<-a[1], a[2]>>

RMul(a, b) ==
    IF a[1] = 0 \/ b[1] = 0 THEN RZero
    ELSE RNorm(a[1] * b[1], a[2] * b[2])

\* b is not zero
RInv(b) == IF b[1] < 0 THEN <<-b[2], -b[1]>> ELSE <<b[2], b[1]>>

\* ---------------------------------------------------------------- numbers

Num(n, d) == [inv |-> RZero, one |-> RNorm(n, d), big |-> RZero]

Int2Num(i) == Num(i, 1)

Zero == Int2Num(0)

One == Int2Num(1)

\* The literal 1.e20 of set_section.
Rigid == [inv |-> RZero, one |-> RZero, big |-> <<1, 1>>]

Add(a, b) ==
    IF a = Zero THEN b
    ELSE IF b = Zero THEN a
    ELSE
    [inv |-> RAdd(a.inv, b.inv), one |-> RAdd(a.one, b.one), big |-> RAdd(a.big, b.big)]

Neg(a) == [inv |-> RNeg(a.inv), one |-> RNeg(a.one), big |-> RNeg(a.big)]

Sub(a, b) == Add(a, Neg(b))

Mul(a, b) ==
    IF a = Zero \/ b = Zero THEN Zero
    ELSE
    [inv |-> RAdd(RMul(a.inv, b.one), RMul(a.one, b.inv)),
     one |-> RAdd(RMul(a.one, b.one), RAdd(RMul(a.inv, b.big), RMul(a.big, b.inv))),
     big |-> RAdd(RMul(a.big, b.one), RMul(a.one, b.big))]

\* a / b for a divisor that is a plain number or a multiple of 1e20, not zero
Div(a, b) ==
    IF b.big[1] = 0
    THEN LET r == RInv(b.one)
         IN  [inv |-> RMul(a.inv, r), one |-> RMul(a.one, r), big |-> RMul(a.big, r)]
    ELSE LET r == RInv(b.big)
         IN  [inv |-> RMul(a.one, r), one |-> RMul(a.big, r), big |-> RZero]

\* the sign of a number: the 1e20 part dominates, then the plain part
Positive(a) ==
    \/ a.big[1] > 0
    \/ a.big[1] = 0 /\ a.one[1] > 0
    \/ a.big[1] = 0 /\ a.one[1] = 0 /\ a.inv[1] > 0

\* np.sqrt of an integer that is a perfect square
Sqrt(n) == CHOOSE r \in 0..n : r * r = n

\* ------------------------------------------------------- vectors, matrices

RECURSIVE SumTo(_, _)
SumTo(f, n) == IF n = 0 THEN Zero ELSE Add(SumTo(f, n - 1), f[n])

\* np.matmul of a 6x6 matrix and a 6-vector
MatVec(A, v) == [i \in 1..6 |-> SumTo([m \in 1..6 |-> Mul(A[i][m], v[m])], 6)]

\* np.matmul of two 6x6 matrices
MatMul(A, B) ==
    [i \in 1..6 |-> [j \in 1..6 |-> SumTo([m \in 1..6 |-> Mul(A[i][m], B[m][j])], 6)]]

\* np.transpose
Transpose(A) == [i \in 1..6 |-> [j \in 1..6 |-> A[j][i]]]

Identity6 == [i \in 1..6 |-> [j \in 1..6 |-> IF i = j THEN One ELSE Zero]]

\* ------------------------------------------------------------------ nodes

\* The Node collaborator: a position, three global DOF indices and an
\* accumulated load.  Nodes 1 and 4 lie on the same point.
NodeIds == {1, 2, 3, 4, 5}

NodeX == <<0, 3, 3, 0, 0>>

NodeZ == <<0, 0, 4, 0, 4>>

NodeDofs(n) == <<3 * (n - 1), 3 * (n - 1) + 1, 3 * (n - 1) + 2>>

\* Node.add_load: the vector is added to the node's accumulated load
add_load(p, v) == [i \in 1..3 |-> Add(p[i], v[i])]

VARIABLES
    ne,      \* the class attribute Element.ne
    elem,    \* the element the program holds: its attributes
    loads,   \* loads[n]: the accumulated load of node n
    ret,     \* the last call: its name, arguments and result
    arg,     \* the displacement vector and station count the caller passes
    built,   \* history: constructions since the last clear()
    calls,   \* history: the bag of add_distributed_load calls made so far
    mine     \* history: the loads q_1, ..., q_n given to the element held now

vars == <<ne, elem, loads, ret, arg, built, calls, mine>>

\* ------------------------------------------------------------- the element

\* a float literal or an integer argument
F(i) == Int2Num(i)

\* np.arctan2(y, x) for integers y, x: the angle, kept as its cosine and sine
\* (arctan2(0, 0) is the angle 0)
arctan2(y, x) ==
    LET r == Sqrt(x * x + y * y)
    IN  IF r = 0 THEN [cos |-> One, sin |-> Zero]
        ELSE [cos |-> Num(x, r), sin |-> Num(y, r)]

\* T with the same sign on both off-diagonal sines
TransformationMatrix_same_sign(alpha) ==
    [i \in 1..6 |-> [j \in 1..6 |->
        IF <<i, j>> \in {<<1, 1>>, <<2, 2>>, <<4, 4>>, <<5, 5>>} THEN alpha.cos
        ELSE IF <<i, j>> \in {<<1, 2>>, <<4, 5>>} THEN Neg(alpha.sin)
        ELSE IF <<i, j>> \in {<<2, 1>>, <<5, 4>>} THEN Neg(alpha.sin)
        ELSE IF <<i, j>> \in {<<3, 3>>, <<6, 6>>} THEN One
        ELSE Zero]]

\* the 6x6 matrix T of __init__, indices shifted to start at 1
TransformationMatrix(alpha) ==
    [i \in 1..6 |-> [j \in 1..6 |->
        IF <<i, j>> \in {<<1, 1>>, <<2, 2>>, <<4, 4>>, <<5, 5>>} THEN alpha.cos
        ELSE IF <<i, j>> \in {<<1, 2>>, <<4, 5>>} THEN Neg(alpha.sin)
        ELSE IF <<i, j>> \in {<<2, 1>>, <<5, 4>>} THEN alpha.sin
        ELSE IF <<i, j>> \in {<<3, 3>>, <<6, 6>>} THEN One
        ELSE Zero]]

\* self.Tt of __init__
TtOf(T) == Transpose(T)

\* Element.__init__: the attributes of a new element.  EA and EI are not
\* among them: only set_section creates them.
Element(node1, node2) ==
    LET dx == NodeX[node2] - NodeX[node1]
        dz == NodeZ[node2] - NodeZ[node1]
        alpha == arctan2(-dz, dx)
        T == TransformationMatrix(alpha)
    IN  [live |-> TRUE,
         nodes |-> <<node1, node2>>,
         L |-> F(Sqrt(dx * dx + dz * dz)),
         T |-> T,
         Tt |-> TtOf(T),
         q |-> <<F(0), F(0)>>,
         local_element_load |-> [i \in 1..6 |-> F(0)]]

\* no element constructed yet
NoElement == [live |-> FALSE]

HasAttr(e, a) == a \in DOMAIN e

\* Element.set_section: a key missing from props gets 1.e20
set_section(e, props) ==
    [a \in {"EA", "EI"} |-> IF a \in DOMAIN props THEN props[a] ELSE Rigid] @@ e

\* Element.global_dofs
global_dofs(e) == NodeDofs(e.nodes[1]) \o NodeDofs(e.nodes[2])

\* the result of a division by a zero length: every entry is nan
NaN == [nan |-> TRUE]

\* k with +6EI/L^2 in the entries coupling w1 to the rotations
k_local_wrong_sign(e) ==
    LET EA == e.EA
        EI == e.EI
        L == e.L
        ax == Div(EA, L)
        b12 == Div(Div(Div(Mul(F(12), EI), L), L), L)
        b6 == Div(Div(Mul(F(6), EI), L), L)
        b4 == Div(Mul(F(4), EI), L)
        b2 == Div(Mul(F(2), EI), L)
    IN  [i \in 1..6 |-> [j \in 1..6 |->
            IF <<i, j>> \in {<<1, 1>>, <<4, 4>>} THEN ax
            ELSE IF <<i, j>> \in {<<4, 1>>, <<1, 4>>} THEN Neg(ax)
            ELSE IF <<i, j>> \in {<<2, 2>>, <<5, 5>>} THEN b12
            ELSE IF <<i, j>> \in {<<2, 5>>, <<5, 2>>} THEN Neg(b12)
            ELSE IF <<i, j>> \in {<<2, 3>>, <<3, 2>>, <<2, 6>>, <<6, 2>>} THEN b6
            ELSE IF <<i, j>> \in {<<3, 5>>, <<5, 3>>, <<5, 6>>, <<6, 5>>} THEN b6
            ELSE IF <<i, j>> \in {<<3, 3>>, <<6, 6>>} THEN b4
            ELSE IF <<i, j>> \in {<<3, 6>>, <<6, 3>>} THEN b2
            ELSE Zero]]

\* the matrix k of stiffness(), indices shifted to start at 1
k_local(e) ==
    LET EA == e.EA
        EI == e.EI
        L == e.L
        ax == Div(EA, L)
        b12 == Div(Div(Div(Mul(F(12), EI), L), L), L)
        b6 == Div(Div(Mul(F(6), EI), L), L)
        b4 == Div(Mul(F(4), EI), L)
        b2 == Div(Mul(F(2), EI), L)
    IN  [i \in 1..6 |-> [j \in 1..6 |->
            IF <<i, j>> \in {<<1, 1>>, <<4, 4>>} THEN ax
            ELSE IF <<i, j>> \in {<<4, 1>>, <<1, 4>>} THEN Neg(ax)
            ELSE IF <<i, j>> \in {<<2, 2>>, <<5, 5>>} THEN b12
            ELSE IF <<i, j>> \in {<<2, 5>>, <<5, 2>>} THEN Neg(b12)
            ELSE IF <<i, j>> \in {<<2, 3>>, <<3, 2>>, <<2, 6>>, <<6, 2>>} THEN Neg(b6)
            ELSE IF <<i, j>> \in {<<3, 5>>, <<5, 3>>, <<5, 6>>, <<6, 5>>} THEN b6
            ELSE IF <<i, j>> \in {<<3, 3>>, <<6, 6>>} THEN b4
            ELSE IF <<i, j>> \in {<<3, 6>>, <<6, 3>>} THEN b2
            ELSE Zero]]

\* Element.stiffness, for an element that has EA and EI
stiffness(e) ==
    IF e.L = Zero THEN [i \in 1..6 |-> [j \in 1..6 |-> NaN]]
    ELSE MatMul(MatMul(e.Tt, k_local(e)), e.T)

\* lumped_load with the same sign on both end moments
lumped_load_same_sign(l, q) ==
    <<Mul(Mul(Num(1, 2), q[1]), l),
      Mul(Mul(Num(1, 2), q[2]), l),
      Mul(Mul(Mul(Num(1, 12), q[2]), l), l),
      Mul(Mul(Num(1, 2), q[1]), l),
      Mul(Mul(Num(1, 2), q[2]), l),
      Mul(Mul(Mul(Num(1, 12), q[2]), l), l)>>

\* the list local_element_load of add_distributed_load
lumped_load(l, q) ==
    <<Mul(Mul(Num(1, 2), q[1]), l),
      Mul(Mul(Num(1, 2), q[2]), l),
      Mul(Mul(Mul(Num(-1, 12), q[2]), l), l),
      Mul(Mul(Num(1, 2), q[1]), l),
      Mul(Mul(Num(1, 2), q[2]), l),
      Mul(Mul(Mul(Num(1, 12), q[2]), l), l)>>

\* add_distributed_load adding q to the stored load instead of replacing it
add_distributed_load_accumulates(e, q) ==
    LET qq == <<Add(e.q[1], q[1]), Add(e.q[2], q[2])>>
    IN  [e EXCEPT !.q = qq, !.local_element_load = lumped_load(e.L, qq)]

\* add_distributed_load writing l * l back into self.L
add_distributed_load_writes_L(e, q) ==
    [e EXCEPT !.q = q, !.local_element_load = lumped_load(e.L, q),
              !.L = Mul(e.L, e.L)]

\* Element.add_distributed_load: the element afterwards
add_distributed_load(e, q) ==
    [e EXCEPT !.q = q, !.local_element_load = lumped_load(e.L, q)]

\* global_element_load of add_distributed_load, from the element afterwards
global_element_load(e) == MatVec(e.Tt, e.local_element_load)

\* np.linspace(0.0, l, num_points): the last station is l itself
linspace(l, num_points) ==
    [i \in 1..num_points |->
        IF i = num_points /\ num_points > 1 THEN l
        ELSE IF num_points = 1 THEN Zero
        ELSE Mul(F(i - 1), Div(l, F(num_points - 1)))]

RECURSIVE Pow(_, _)
Pow(a, n) == IF n = 0 THEN One ELSE Mul(Pow(a, n - 1), a)

\* M with phi_2 not halved in the l^2 term
M_at_phi2_not_halved(e, local_disp, local_x) ==
    LET l == e.L
        q == e.q[2]
        EI == e.EI
        w_1 == local_disp[2]
        phi_1 == local_disp[3]
        w_2 == local_disp[5]
        phi_2 == local_disp[6]
        t1 == Mul(Neg(Pow(l, 5)), q)
        t2 == Mul(Mul(Mul(F(6), Pow(l, 4)), q), local_x)
        t3 == Mul(Mul(Mul(Mul(F(6), q), local_x), local_x), Pow(l, 3))
        t4 == Mul(Mul(Mul(F(48), Add(phi_1, phi_2)), EI), Pow(l, 2))
        t5 == Mul(Mul(Mul(F(72), EI),
                      Sub(Add(Mul(Add(phi_1, phi_2), local_x), w_1), w_2)), l)
        t6 == Mul(Mul(Mul(F(144), local_x), EI), Sub(w_1, w_2))
    IN  Div(Div(Sub(Add(Sub(Sub(Add(t1, t2), t3), t4), t5), t6), F(12)), Pow(l, 3))

\* the expression M of bending_moments at one station
M_at(e, local_disp, local_x) ==
    LET l == e.L
        q == e.q[2]
        EI == e.EI
        w_1 == local_disp[2]
        phi_1 == local_disp[3]
        w_2 == local_disp[5]
        phi_2 == local_disp[6]
        t1 == Mul(Neg(Pow(l, 5)), q)
        t2 == Mul(Mul(Mul(F(6), Pow(l, 4)), q), local_x)
        t3 == Mul(Mul(Mul(Mul(F(6), q), local_x), local_x), Pow(l, 3))
        t4 == Mul(Mul(Mul(F(48), Add(phi_1, Div(phi_2, F(2)))), EI), Pow(l, 2))
        t5 == Mul(Mul(Mul(F(72), EI),
                      Sub(Add(Mul(Add(phi_1, phi_2), local_x), w_1), w_2)), l)
        t6 == Mul(Mul(Mul(F(144), local_x), EI), Sub(w_1, w_2))
    IN  Div(Div(Sub(Add(Sub(Sub(Add(t1, t2), t3), t4), t5), t6), F(12)), Pow(l, 3))

\* Element.bending_moments, for an element that has EI
bending_moments(e, u_global, num_points) ==
    IF e.L = Zero THEN [i \in 1..num_points |-> NaN]
    ELSE LET local_x == linspace(e.L, num_points)
             local_disp == MatVec(e.T, u_global)
         IN  [i \in 1..num_points |-> M_at(e, local_disp, local_x[i])]

\* u with x in place of x**2 in the load term
u_at_no_square(e, ul, x) ==
    LET L == e.L
        q_x == e.q[1]
        EA == e.EA
        u_1 == ul[1]
        u_2 == ul[4]
    IN  Add(Add(Mul(q_x, Add(Div(Mul(Neg(L), x), Mul(F(2), EA)),
                             Div(x, Mul(F(2), EA)))),
                Mul(u_1, Sub(One, Div(x, L)))),
            Div(Mul(u_2, x), L))

\* the expression u of full_displacement at one station
u_at(e, ul, x) ==
    LET L == e.L
        q_x == e.q[1]
        EA == e.EA
        u_1 == ul[1]
        u_2 == ul[4]
    IN  Add(Add(Mul(q_x, Add(Div(Mul(Neg(L), x), Mul(F(2), EA)),
                             Div(Pow(x, 2), Mul(F(2), EA)))),
                Mul(u_1, Sub(One, Div(x, L)))),
            Div(Mul(u_2, x), L))

\* the expression w of full_displacement at one station
w_at(e, ul, x) ==
    LET L == e.L
        q == e.q[2]
        EI == e.EI
        w_1 == ul[2]
        phi_1 == ul[3]
        w_2 == ul[5]
        phi_2 == ul[6]
        x2 == Pow(x, 2)
        x3 == Pow(x, 3)
        x4 == Pow(x, 4)
        L2 == Pow(L, 2)
        L3 == Pow(L, 3)
        s1 == Mul(phi_1, Sub(Add(Neg(x), Div(Mul(F(2), x2), L)), Div(x3, L2)))
        s2 == Mul(phi_2, Sub(Div(x2, L), Div(x3, L2)))
        s3 == Mul(q, Add(Sub(Div(Mul(L2, x2), Mul(F(24), EI)),
                             Div(Mul(L, x3), Mul(F(12), EI))),
                         Div(x4, Mul(F(24), EI))))
        s4 == Mul(w_1, Add(Sub(One, Div(Mul(F(3), x2), L2)), Div(Mul(F(2), x3), L3)))
        s5 == Mul(w_2, Sub(Div(Mul(F(3), x2), L2), Div(Mul(F(2), x3), L3)))
    IN  Add(Add(Add(Add(s1, s2), s3), s4), s5)

\* Element.full_displacement, for an element that has EA and EI
full_displacement(e, u_global, num_points) ==
    IF e.L = Zero
    THEN [u |-> [i \in 1..num_points |-> NaN], w |-> [i \in 1..num_points |-> NaN]]
    ELSE LET x == linspace(e.L, num_points)
             ul == MatVec(e.T, u_global)
         IN  [u |-> [i \in 1..num_points |-> u_at(e, ul, x[i])],
              w |-> [i \in 1..num_points |-> w_at(e, ul, x[i])]]

\* global_element_load[0:3] and [3:6] handed to the two nodes' add_load
apply_global_load(p, e) ==
    LET g == global_element_load(e)
        p1 == [p EXCEPT ![e.nodes[1]] = add_load(@, SubSeq(g, 1, 3))]
    IN  [p1 EXCEPT ![e.nodes[2]] = add_load(@, SubSeq(g, 4, 6))]

\* ----------------------------------------------------------------- inputs

\* the cap on Element.ne
MaxNe == 2

\* the cap on the number of add_distributed_load calls
MaxLoads == 2

Vec(t) == [i \in DOMAIN t |-> F(t[i])]

\* node pairs handed to the constructor: along +x, inclined, and two nodes on
\* one point
ConstructPairs == {<<1, 2>>, <<1, 3>>, <<1, 4>>}

NoProps == [a \in {} |-> Zero]

PropsSet == {NoProps, [EI |-> F(3)], [EA |-> F(2), EI |-> F(3)]}

QSet == {Vec(<<2, -3>>), Vec(<<0, 6>>)}

DispSet == {Vec(<<1, 0, 0, 2, -1, 1>>)}

PointsSet == {3}

NoLoads == [n \in NodeIds |-> <<Zero, Zero, Zero>>]

\* ---------------------------------------------------------------- actions

Init ==
    /\ ne = 0
    /\ elem = NoElement
    /\ loads = NoLoads
    /\ ret = [op |-> "start"]
    /\ arg \in [u_global : DispSet, num_points : PointsSet]
    /\ built = 0
    /\ calls = EmptyBag
    /\ mine = <<>>

\* Element.clear()
Clear ==
    /\ ne' = 0
    /\ built' = 0
    /\ ret' = [op |-> "clear"]
    /\ UNCHANGED <<elem, loads, arg, calls, mine>>

\* the constructor counting on the instance: Element.ne stays as it was
Construct_no_count(node1, node2) ==
    /\ ne < MaxNe
    /\ elem' = Element(node1, node2)
    /\ ne' = ne
    /\ built' = built + 1
    /\ ret' = [op |-> "__init__"]
    /\ mine' = <<>>
    /\ UNCHANGED <<loads, arg, calls>>

\* Element(node1, node2)
Construct(node1, node2) ==
    /\ ne < MaxNe
    /\ elem' = Element(node1, node2)
    /\ ne' = ne + 1
    /\ built' = built + 1
    /\ ret' = [op |-> "__init__"]
    /\ mine' = <<>>
    /\ UNCHANGED <<loads, arg, calls>>

\* elem.set_section(props)
SetSection(props) ==
    /\ elem.live
    /\ elem' = set_section(elem, props)
    /\ ret' = [op |-> "set_section", props |-> props]
    /\ UNCHANGED <<ne, loads, arg, built, calls, mine>>

\* elem.global_dofs()
GlobalDofs ==
    /\ elem.live
    /\ ret' = [op |-> "global_dofs", raised |-> "", value |-> global_dofs(elem)]
    /\ UNCHANGED <<ne, elem, loads, arg, built, calls, mine>>

\* elem.stiffness(): reading self.EA of an element without it raises
Stiffness ==
    /\ elem.live
    /\ ret' = IF HasAttr(elem, "EA") /\ HasAttr(elem, "EI")
              THEN [op |-> "stiffness", raised |-> "", value |-> stiffness(elem)]
              ELSE [op |-> "stiffness", raised |-> "AttributeError"]
    /\ UNCHANGED <<ne, elem, loads, arg, built, calls, mine>>

\* elem.add_distributed_load(q)
AddDistributedLoad(q) ==
    /\ elem.live
    /\ BagCardinality(calls) < MaxLoads
    /\ elem' = add_distributed_load(elem, q)
    /\ loads' = apply_global_load(loads, elem')
    /\ calls' = calls (+) SetToBag({[nodes |-> elem.nodes, q |-> q]})
    /\ mine' = Append(mine, q)
    /\ ret' = [op |-> "add_distributed_load", q |-> q]
    /\ UNCHANGED <<ne, arg, built>>

\* elem.bending_moments(u_global, num_points)
BendingMoments ==
    /\ elem.live
    /\ ret' = IF HasAttr(elem, "EI")
              THEN [op |-> "bending_moments", raised |-> "",
                    value |-> bending_moments(elem, arg.u_global, arg.num_points)]
              ELSE [op |-> "bending_moments", raised |-> "AttributeError"]
    /\ UNCHANGED <<ne, elem, loads, arg, built, calls, mine>>

\* elem.full_displacement(u_global, num_points)
FullDisplacement ==
    /\ elem.live
    /\ ret' = IF HasAttr(elem, "EA") /\ HasAttr(elem, "EI")
              THEN [op |-> "full_displacement", raised |-> "",
                    value |-> full_displacement(elem, arg.u_global, arg.num_points)]
              ELSE [op |-> "full_displacement", raised |-> "AttributeError"]
    /\ UNCHANGED <<ne, elem, loads, arg, built, calls, mine>>

Next ==
    \/ Clear
    \/ \E p \in ConstructPairs : Construct(p[1], p[2])
    \/ \E props \in PropsSet : SetSection(props)
    \/ GlobalDofs
    \/ Stiffness
    \/ \E q \in QSet : AddDistributedLoad(q)
    \/ BendingMoments
    \/ FullDisplacement

Spec == Init /\ [][Next]_vars

\* ------------------------------------------- postprocessing of one element

\* Every orientation of a 3-4-5 triangle: the four axis directions and one
\* inclined direction in each quadrant.
PostPairs ==
    {<<1, 2>>, <<2, 1>>, <<2, 3>>, <<3, 2>>, <<1, 3>>, <<3, 1>>, <<5, 2>>, <<2, 5>>}

PostProps ==
    {NoProps, [EI |-> F(3)], [EA |-> F(2), EI |-> F(3)], [EA |-> F(1), EI |-> Num(1, 2)]}

PostQ == {Vec(<<0, 0>>), Vec(<<1, 0>>), Vec(<<2, -3>>), Vec(<<0, 6>>), Vec(<<-1, 2>>)}

PostDisp ==
    {Vec(<<1, 0, 0, 0, 0, 0>>), Vec(<<0, 1, 0, 0, 0, 0>>), Vec(<<0, 0, 1, 0, 0, 0>>),
     Vec(<<0, 0, 0, 1, 0, 0>>), Vec(<<0, 0, 0, 0, 1, 0>>), Vec(<<0, 0, 0, 0, 0, 1>>),
     Vec(<<1, 0, 0, 2, -1, 1>>), Vec(<<-2, 3, 1, 1, 5, -1>>)}

PostPoints == {1, 2, 4}

\* The states after Element(node1, node2), set_section(props) and
\* add_distributed_load(q), with the arguments of the postprocessing calls.
InitPost ==
    \E p \in PostPairs, props \in PostProps, q \in PostQ :
        /\ ne = 1
        /\ elem = add_distributed_load(set_section(Element(p[1], p[2]), props), q)
        /\ loads = apply_global_load(NoLoads, elem)
        /\ ret = [op |-> "add_distributed_load", q |-> q]
        /\ arg \in [u_global : PostDisp, num_points : PostPoints]
        /\ built = 1
        /\ calls = SetToBag({[nodes |-> p, q |-> q]})
        /\ mine = <<q>>

NextPost ==
    \/ GlobalDofs
    \/ Stiffness
    \/ BendingMoments
    \/ FullDisplacement

SpecPost == InitPost /\ [][NextPost]_vars

\* ----------------------------------------------------------------- claims

Vec6Eq(a, b) == \A i \in 1..6 : a[i] = b[i]

Zero3 == <<Zero, Zero, Zero>>

Zero6 == [i \in 1..6 |-> Zero]

\* C1: after add_distributed_load(q) on an element of length L > 0 the stored
\* local load vector is [qx L/2, qz L/2, -qz L^2/12, qx L/2, qz L/2, +qz L^2/12]:
\* the axial entries sum to qx L, the transverse entries to qz L, and the end
\* moments are opposite (minus at node1, plus at node2).
C1_LumpedLoad ==
    (elem.live /\ Positive(elem.L) /\ ret.op = "add_distributed_load") =>
        LET L == elem.L
            qx == ret.q[1]
            qz == ret.q[2]
            v == elem.local_element_load
            m == Div(Mul(qz, Mul(L, L)), F(12))
        IN  /\ Vec6Eq(v, <<Div(Mul(qx, L), F(2)), Div(Mul(qz, L), F(2)), Neg(m),
                          Div(Mul(qx, L), F(2)), Div(Mul(qz, L), F(2)), m>>)
            /\ Add(v[1], v[4]) = Mul(qx, L)
            /\ Add(v[2], v[5]) = Mul(qz, L)
            /\ Add(v[3], v[6]) = Zero
            /\ (Positive(qz) => Positive(v[6]) /\ Positive(Neg(v[3])))

C1_Witness ==
    /\ elem.live
    /\ ret.op = "add_distributed_load"
    /\ elem.L = F(5)
    /\ ret.q = Vec(<<2, -3>>)
    /\ elem.local_element_load[3] = Num(25, 4)

\* a rigid-body motion in the element's own convention: translation (a, b)
\* and rotation theta, phi1 = phi2 = theta and w2 - w1 = -theta L
RigidMotion(L, a, b, theta) ==
    <<F(a), F(b), F(theta), F(a), Sub(F(b), Mul(F(theta), L)), F(theta)>>

\* <<a, b, theta>>: the three rigid-body modes and two combinations of them
RigidParts == {<<1, 0, 0>>, <<0, 1, 0>>, <<0, 0, 1>>, <<2, -1, 2>>, <<-1, 2, -3>>}

\* C2: for EA, EI, L > 0 the stiffness matrix gives a zero force vector for
\* every rigid-body motion (any translation with any linearised rotation): the
\* local matrix on the local motion, and the returned matrix Tt k T on the
\* same motion expressed in the global frame.
C2_RigidBody ==
    (ret.op = "stiffness" /\ ret.raised = "" /\ Positive(elem.L)
        /\ Positive(elem.EA) /\ Positive(elem.EI)) =>
        LET k == k_local(elem)
        IN  \A m \in RigidParts :
                LET r == RigidMotion(elem.L, m[1], m[2], m[3])
                IN  /\ Vec6Eq(MatVec(k, r), Zero6)
                    /\ Vec6Eq(MatVec(ret.value, MatVec(elem.Tt, r)), Zero6)

C2_Witness ==
    /\ ret.op = "stiffness"
    /\ ret.raised = ""
    /\ elem.L = F(5)
    /\ elem.EA = F(2)
    /\ elem.EI = F(3)
    /\ ret.value[2][2] # Zero

\* C3: for num_points >= 2 and L > 0, full_displacement returns u and w whose
\* first station equals the local (u1, w1) and whose last station equals the
\* local (u2, w2), whatever the nodal displacements and the stored load.
C3_EndStations ==
    (ret.op = "full_displacement" /\ ret.raised = "" /\ Positive(elem.L)
        /\ arg.num_points >= 2) =>
        LET ul == MatVec(elem.T, arg.u_global)
            n == arg.num_points
        IN  /\ DOMAIN ret.value.u = 1..n
            /\ DOMAIN ret.value.w = 1..n
            /\ ret.value.u[1] = ul[1]
            /\ ret.value.w[1] = ul[2]
            /\ ret.value.u[n] = ul[4]
            /\ ret.value.w[n] = ul[5]

C3_Witness ==
    /\ ret.op = "full_displacement"
    /\ ret.raised = ""
    /\ arg.num_points = 4
    /\ arg.u_global = Vec(<<-2, 3, 1, 1, 5, -1>>)
    /\ elem.q = Vec(<<2, -3>>)
    /\ elem.L = F(5)
    /\ elem.EA = F(2)
    /\ ret.value.w[2] # ret.value.w[3]

\* the closed form of C4 at station x
HermiteMoment(EI, L, ul, x) ==
    LET w1 == ul[2]
        phi1 == ul[3]
        w2 == ul[5]
        phi2 == ul[6]
        L2 == Mul(L, L)
        L3 == Mul(L2, L)
        c1 == Sub(Div(F(6), L2), Div(Mul(F(12), x), L3))
        c2 == Sub(Div(F(4), L), Div(Mul(F(6), x), L2))
        c3 == Sub(Div(F(2), L), Div(Mul(F(6), x), L2))
    IN  Mul(EI, Sub(Sub(Mul(c1, Sub(w1, w2)), Mul(c2, phi1)), Mul(c3, phi2)))

\* the second derivative at x of the w that full_displacement interpolates:
\* the central second difference, which is exact for a cubic
Curvature(e, ul, x) ==
    Sub(Add(w_at(e, ul, Add(x, One)), w_at(e, ul, Sub(x, One))),
        Mul(F(2), w_at(e, ul, x)))

\* C4: when the stored transverse load q[1] is 0, bending_moments equals at
\* every station the moment of the cubic Hermite interpolant that
\* full_displacement uses, M = -EI w'' =
\* EI [(6/L^2 - 12x/L^3)(w1 - w2) - (4/L - 6x/L^2) phi1 - (2/L - 6x/L^2) phi2].
C4_HermiteMoment ==
    (ret.op = "bending_moments" /\ ret.raised = "" /\ Positive(elem.L)
        /\ elem.q[2] = Zero) =>
        LET ul == MatVec(elem.T, arg.u_global)
            x == linspace(elem.L, arg.num_points)
        IN  /\ DOMAIN ret.value = 1..arg.num_points
            /\ \A i \in 1..arg.num_points :
                /\ ret.value[i] = HermiteMoment(elem.EI, elem.L, ul, x[i])
                /\ ret.value[i] = Neg(Mul(elem.EI, Curvature(elem, ul, x[i])))

C4_Witness ==
    /\ ret.op = "bending_moments"
    /\ ret.raised = ""
    /\ elem.q = Vec(<<1, 0>>)
    /\ arg.num_points = 4
    /\ arg.u_global = Vec(<<-2, 3, 1, 1, 5, -1>>)
    /\ elem.L = F(5)
    /\ elem.EI = F(3)
    /\ ret.value[2] # ret.value[3]

\* C5: for every orientation the matrix T of the constructor is orthogonal,
\* T times the stored Tt is the identity, and the rotational rows and columns
\* (indices 2 and 5, here 3 and 6) are those of the identity.
C5_Orthogonal ==
    (elem.live /\ Positive(elem.L)) =>
        /\ MatMul(elem.T, elem.Tt) = Identity6
        /\ \A i \in {3, 6}, j \in 1..6 :
            /\ elem.T[i][j] = Identity6[i][j]
            /\ elem.T[j][i] = Identity6[j][i]

C5_Witness ==
    /\ elem.live
    /\ elem.nodes = <<2, 5>>
    /\ elem.T[1][1] = Num(-3, 5)
    /\ elem.T[1][2] = Num(4, 5)
    /\ elem.Tt[1][2] = Num(-4, 5)

\* what one recorded call hands to node n: the global load of the element
\* built on c.nodes under the load c.q, rows 0:3 to its first node and rows
\* 3:6 to its second
Contribution(c, n) ==
    LET e0 == Element(c.nodes[1], c.nodes[2])
        g == MatVec(e0.Tt, lumped_load(e0.L, c.q))
        a == IF n = c.nodes[1] THEN SubSeq(g, 1, 3) ELSE Zero3
        b == IF n = c.nodes[2] THEN SubSeq(g, 4, 6) ELSE Zero3
    IN  [i \in 1..3 |-> Add(a[i], b[i])]

RECURSIVE SumCalls(_, _, _)
SumCalls(S, B, n) ==
    IF S = {} THEN Zero3
    ELSE LET c == CHOOSE x \in S : TRUE
             rest == SumCalls(S \ {c}, B, n)
             part == Contribution(c, n)
         IN  [i \in 1..3 |-> Add(rest[i], Mul(F(CopiesIn(c, B)), part[i]))]

\* C6: after calls add_distributed_load(q_1), ..., (q_n), n >= 1, on one
\* element, its stored q and local load vector are those of q_n alone, and
\* every node holds the sum of the global contributions of all the calls made.
C6_LastWriteWins ==
    /\ (elem.live /\ Len(mine) >= 1) =>
        /\ elem.q = mine[Len(mine)]
        /\ Vec6Eq(elem.local_element_load, lumped_load(elem.L, mine[Len(mine)]))
    /\ \A n \in NodeIds : loads[n] = SumCalls(BagToSet(calls), calls, n)

C6_Witness ==
    /\ elem.live
    /\ elem.L = F(5)
    /\ mine = <<Vec(<<2, -3>>), Vec(<<0, 6>>)>>
    /\ elem.q = Vec(<<0, 6>>)
    /\ loads[1] # Contribution([nodes |-> elem.nodes, q |-> elem.q], 1)

\* C7: in every state after construction EA and EI hold a usable value: the
\* one the most recent set_section call supplied for the key, or 1e20 when the
\* key was not specified or set_section was never called.
C7_SectionAlwaysSet ==
    elem.live =>
        /\ HasAttr(elem, "EA")
        /\ HasAttr(elem, "EI")
        /\ (ret.op = "__init__" => elem.EA = Rigid /\ elem.EI = Rigid)
        /\ (ret.op = "set_section" =>
               /\ elem.EA = IF "EA" \in DOMAIN ret.props THEN ret.props.EA ELSE Rigid
               /\ elem.EI = IF "EI" \in DOMAIN ret.props THEN ret.props.EI ELSE Rigid)

\* C8: every element that exists has L > 0, so no later call divides by a
\* zero length.
C8_PositiveLength ==
    /\ (elem.live => Positive(elem.L))
    /\ (ret.op \in {"stiffness", "bending_moments", "full_displacement"}
            /\ ret.raised = "" =>
        /\ ret.op = "stiffness" => ret.value[1][1] # NaN
        /\ ret.op = "bending_moments" => ret.value[1] # NaN
        /\ ret.op = "full_displacement" => ret.value.u[1] # NaN)

\* C9: Element.ne equals the number of elements constructed since the most
\* recent clear() (or since the start); no other operation changes it.
C9_Counter == ne = built

C9_Witness ==
    /\ ne = 1
    /\ elem.live
    /\ BagCardinality(calls) = 2
    /\ \E c \in BagToSet(calls) : c.nodes # elem.nodes
    /\ \E c \in BagToSet(calls) : c.nodes = elem.nodes
    /\ ret.op = "full_displacement"

\* C10: once constructed, an element keeps its L, T, Tt and its ordered node
\* pair through set_section, add_distributed_load, global_dofs, stiffness,
\* bending_moments and full_displacement.
C10_GeometryFixed ==
    [][(elem.live /\ ret'.op \notin {"__init__"}) =>
        /\ elem'.live
        /\ elem'.L = elem.L
        /\ elem'.T = elem.T
        /\ elem'.Tt = elem.Tt
        /\ elem'.nodes = elem.nodes]_vars

C10_Witness ==
    /\ elem.live
    /\ HasAttr(elem, "EA")
    /\ elem.EA = F(2)
    /\ elem.q = Vec(<<0, 6>>)
    /\ ret.op = "full_displacement"
    /\ elem.nodes = <<1, 3>>
    /\ elem.L = F(5)
    /\ elem.T = Element(1, 3).T
====
